---- MODULE Spec2Model ----
(***************************************************************************)
(* Model of udashboard's internal representation (src/src/config.rs): the  *)
(* label composer, the value formatter, the scale mapper, the bounds       *)
(* geometry, and the logic and style resolution that the rule and style    *)
(* types are declared for.                                                  *)
(*                                                                         *)
(* Every operation of config.rs is a pure method, called by one renderer   *)
(* thread.  The state records the call in progress: op (which method, or   *)
(* "idle" between calls), args (receiver and arguments, as they were when  *)
(* the call was made), out (the value returned) and recv (the receiver as  *)
(* the call leaves it: every method borrows it as &self).                  *)
(*                                                                         *)
(* Floats (f64) are modelled exactly where the code's arithmetic is exact  *)
(* on the inputs drawn: a formatter value is a decimal with two fractional *)
(* digits, a scale or bounds coordinate is an integer and a quotient is a  *)
(* rational <<numerator, denominator>>.                                    *)
(***************************************************************************)
EXTENDS Integers, Sequences, FiniteSets, TLC

VARIABLES op, recv, args, out

vars == <<op, recv, args, out>>

(***************************************************************************)
(* Bounds of the model.                                                    *)
(***************************************************************************)
\* longest text payload and longest appended text
MaxLen == 2

\* widest field width and most fractional digits of a Format
MaxWidth == 4

MaxDec == 3

\* how far the formatter's values run on from each base value
ValSpan == 2

\* scale ends run from -ScaleSpan to ScaleSpan (and 100, the usual full scale)
ScaleSpan == 3

\* bounds coordinates run from -1 to MaxCoord, small sizes from 0 to MaxDim
MaxCoord == 1

MaxDim == 2

\* longest rule list
MaxRules == 2

Alphabet == {"a", "b"}

RECURSIVE TextsOfLen(_)
TextsOfLen(n) ==
    IF n = 0 THEN {""}
    ELSE {t \o ch : t \in TextsOfLen(n - 1), ch \in Alphabet}

Texts == UNION {TextsOfLen(n) : n \in 0..MaxLen}

(***************************************************************************)
(* Label (config.rs 30-47)                                                 *)
(***************************************************************************)
\* Color(r, g, b, a): two opaque colours are enough to tell them apart
Colors == {<<1, 0, 0, 1>>, <<0, 0, 1, 1>>}

Sizes == {10, 12}

LabelNone == [tag |-> "None"]

LabelPlain(t) == [tag |-> "Plain", text |-> t]

LabelSized(t, s) == [tag |-> "Sized", text |-> t, size |-> s]

LabelStyled(t, s, c) == [tag |-> "Styled", text |-> t, size |-> s, color |-> c]

Labels ==
    {LabelNone}
        \cup {LabelPlain(t) : t \in Texts}
        \cup {LabelSized(t, s) : t \in Texts, s \in Sizes}
        \cup {LabelStyled(t, s, c) : t \in Texts, s \in Sizes, c \in Colors}

\* a slip: the extra text is put in front of the payload
append_prepends(self, text) ==
    CASE self.tag = "None" -> LabelPlain(text)
      [] self.tag = "Plain" -> LabelPlain(text \o self.text)
      [] self.tag = "Sized" -> LabelSized(text \o self.text, self.size)
      [] self.tag = "Styled" -> LabelStyled(text \o self.text, self.size, self.color)

\* Label::append(&self, text) -> Label
append(self, text) ==
    CASE self.tag = "None" -> LabelPlain(text)
      [] self.tag = "Plain" -> LabelPlain(self.text \o text)
      [] self.tag = "Sized" -> LabelSized(self.text \o text, self.size)
      [] self.tag = "Styled" -> LabelStyled(self.text \o text, self.size, self.color)

(***************************************************************************)
(* Numbers.  i32 arithmetic as Rust does it: / and % truncate toward zero. *)
(***************************************************************************)
\* i32::MAX
I32Max == 2147483647

I32Min == -I32Max - 1

\* a / b on i32, b > 0
RustDiv(a, b) ==
    IF a >= 0 \/ a % b = 0 THEN a \div b ELSE (a \div b) + 1

\* a % b on i32, b > 0: the remainder has the sign of a
RustRem(a, b) == a - b * RustDiv(a, b)

Abs(n) == IF n < 0 THEN -n ELSE n

Max(a, b) == IF a >= b THEN a ELSE b

Min(a, b) == IF a <= b THEN a ELSE b

(***************************************************************************)
(* f64 values given to the formatter.  Fin(w, c) is the finite value       *)
(* w + c/100 with |w| <= i32::MAX, w and c of the same sign and c a        *)
(* multiple of 25: these are binary fractions, so the value, its product   *)
(* with an integer and its product with 100.0 are exact in f64.  Big(neg)  *)
(* is any value of magnitude 2^31 or more (the infinities included) and    *)
(* NaN is not-a-number.                                                    *)
(***************************************************************************)
Fin(w, c) == [k |-> "fin", w |-> w, c |-> c]

Big(neg) == [k |-> "big", neg |-> neg]

NaN == [k |-> "nan"]

IsNegative(v) ==
    CASE v.k = "fin" -> v.w < 0 \/ v.c < 0
      [] v.k = "big" -> v.neg
      [] v.k = "nan" -> FALSE

\* value * scale for a whole positive scale (line 84)
FloatMul(v, scale) ==
    IF v.k # "fin" THEN v
    ELSE LET carry == RustDiv(Abs(v.c) * scale, 100)
             cents == RustRem(Abs(v.c) * scale, 100)
             sign == IF IsNegative(v) THEN -1 ELSE 1
         IN  IF Abs(v.w) > (I32Max - carry) \div scale
             THEN Big(IsNegative(v))
             ELSE Fin(sign * (Abs(v.w) * scale + carry), sign * cents)

\* `v as i32`: truncates toward zero, saturates at the i32 range, NaN is 0
AsI32(v) ==
    CASE v.k = "fin" -> v.w
      [] v.k = "big" -> IF v.neg THEN I32Min ELSE I32Max
      [] v.k = "nan" -> 0

\* the largest whole part whose hundredfold still fits an i32
CentiWholeMax == I32Max \div 100

\* `(v * 100.0) as i32` (line 85): the product is exact, the cast saturates
Times100AsI32(v) ==
    CASE v.k = "fin" ->
            IF v.w > CentiWholeMax
                \/ (v.w = CentiWholeMax /\ v.c > I32Max % 100)
            THEN I32Max
            ELSE IF v.w < -CentiWholeMax
                    \/ (v.w = -CentiWholeMax /\ -v.c > (I32Max % 100) + 1)
            THEN I32Min
            ELSE v.w * 100 + v.c
      [] v.k = "big" -> IF v.neg THEN I32Min ELSE I32Max
      [] v.k = "nan" -> 0

(***************************************************************************)
(* Text of numbers, as core::fmt writes it.                                *)
(***************************************************************************)
DigitChar(d) ==
    CASE d = 0 -> "0" [] d = 1 -> "1" [] d = 2 -> "2" [] d = 3 -> "3"
      [] d = 4 -> "4" [] d = 5 -> "5" [] d = 6 -> "6" [] d = 7 -> "7"
      [] d = 8 -> "8" [] d = 9 -> "9"

\* the decimal digits of |n|, with no sign
RECURSIVE Digits(_)
Digits(n) ==
    IF RustDiv(n, 10) = 0 THEN DigitChar(Abs(RustRem(n, 10)))
    ELSE Digits(RustDiv(n, 10)) \o DigitChar(Abs(RustRem(n, 10)))

\* Display for i32
I32Str(n) == (IF n < 0 THEN "-" ELSE "") \o Digits(n)

\* n copies of the character ch
RECURSIVE Repeat(_, _)
Repeat(ch, n) == IF n <= 0 THEN "" ELSE ch \o Repeat(ch, n - 1)

\* {:width$} on a number: right-justified, filled with spaces, never cut
PadLeft(s, width) == Repeat(" ", width - Len(s)) \o s

\* {:0width$} on an i32: the zeros go between the sign and the digits
ZeroPad(n, width) ==
    LET sign == IF n < 0 THEN "-" ELSE ""
        digits == Digits(n)
    IN  sign \o Repeat("0", width - Len(sign) - Len(digits)) \o digits

(***************************************************************************)
(* Format (config.rs 62-99)                                                *)
(***************************************************************************)
\* a slip: the number is left-justified in its field
format_integer_left(value, width) ==
    I32Str(AsI32(value)) \o Repeat(" ", width - Len(I32Str(AsI32(value))))

\* Format::Integer(width): format!("{value:width$}", value = value as i32)
format_integer(value, width) == PadLeft(I32Str(AsI32(value)), width)

\* {:.dec$} on a finite f64: |value| rounded to dec fractional digits, ties
\* to even, as <<whole, fraction>> with the fraction in units of 10^-dec
RoundedParts(value, dec) ==
    LET w == Abs(value.w)
        c == Abs(value.c)
    IN  CASE dec >= 2 -> <<w, c>>
          [] dec = 1 ->
                LET t == c \div 10
                    r == c % 10
                    up == r > 5 \/ (r = 5 /\ t % 2 = 1)
                IN  IF ~up THEN <<w, t>>
                    ELSE IF t = 9 THEN <<w + 1, 0>> ELSE <<w, t + 1>>
          [] dec = 0 ->
                LET up == c > 50 \/ (c = 50 /\ w % 2 = 1)
                IN  <<IF up THEN w + 1 ELSE w, 0>>

\* Display for a finite f64 with a precision
FixedStr(value, dec) ==
    LET parts == RoundedParts(value, dec)
        sign == IF IsNegative(value) THEN "-" ELSE ""
        frac == IF dec = 0 THEN ""
                ELSE "." \o ZeroPad(parts[2], Min(dec, 2)) \o Repeat("0", dec - 2)
    IN  sign \o Digits(parts[1]) \o frac

\* Format::Decimal(int, dec): format!("{value:int$.dec$}"): int is the
\* minimum width of the whole text
format_decimal(value, int, dec) == PadLeft(FixedStr(value, dec), int)

\* Format::Time(scale)
format_time(value, scale) ==
    LET seconds == FloatMul(value, scale)
        subseconds == Times100AsI32(seconds)
        minutes == RustDiv(AsI32(seconds), 60)
        hours == RustDiv(minutes, 60)
    IN  PadLeft(I32Str(hours), 2) \o ":"
            \o ZeroPad(RustRem(minutes, 60), 2) \o ":"
            \o ZeroPad(RustRem(AsI32(seconds), 60), 2) \o "."
            \o ZeroPad(RustRem(subseconds, 100), 2)

\* whole parts: around zero, a minute, an hour, 1:01:01, a hundred hours,
\* the last value whose hundredfold fits an i32, and the top of the i32 range
WholeBases == {0, 7, 59, 3599, 3661, 12345, 359999, CentiWholeMax}

Wholes ==
    {b + d : b \in WholeBases, d \in 0..ValSpan}
        \cup {I32Max - d : d \in 0..ValSpan}

Cents == {0, 25, 50, 75}

FinValues ==
    {Fin(w, c) : w \in Wholes, c \in Cents}
        \cup ({Fin(-w, -c) : w \in Wholes, c \in Cents} \ {Fin(0, 0)})

FloatValues == FinValues \cup {Big(FALSE), Big(TRUE), NaN}

\* the values given to Format::Decimal: rounding them up stays below 2^31
DecimalValues == {v \in FinValues : Abs(v.w) < I32Max}

\* Time(scale): the channel counts seconds or minutes
TimeScales == {1, 60}

(***************************************************************************)
(* Rationals <<n, d>>, d > 0: the exact value of an f64 quotient.          *)
(***************************************************************************)
Rat(n, d) == IF d < 0 THEN <<-n, -d>> ELSE <<n, d>>

RatEq(a, b) == a[1] * b[2] = b[1] * a[2]

RatLess(a, b) == a[1] * b[2] < b[1] * a[2]

RatLeq(a, b) == a[1] * b[2] <= b[1] * a[2]

RatSub(a, b) == <<a[1] * b[2] - b[1] * a[2], a[2] * b[2]>>

RatMul(a, b) == <<a[1] * b[1], a[2] * b[2]>>

\* f64::max and f64::min on numbers
RatMax(a, b) == IF RatLess(a, b) THEN b ELSE a

RatMin(a, b) == IF RatLess(b, a) THEN b ELSE a

(***************************************************************************)
(* Scale (config.rs 109-124).  Scale(min, max, divisions, style): the      *)
(* divisions and the style take no part in the mapping and are left out.   *)
(* Angles are in units of PI.                                              *)
(***************************************************************************)
Scale(min, max) == [min |-> min, max |-> max]

\* Scale::range
range(self) == self.max - self.min

\* Scale::to_percent: the quotient is clamped between self.0 and self.1.
\* With a range of 0 the quotient is an infinity or NaN, and max and min
\* (which ignore a NaN operand) leave self.0 = self.1.
to_percent(self, val) ==
    IF range(self) = 0 THEN Rat(self.min, 1)
    ELSE RatMin(RatMax(Rat(val - self.min, range(self)), Rat(self.min, 1)),
                Rat(self.max, 1))

\* a slip: the half turn is not taken off
to_angle_uncentred(self, val) == RatMul(Rat(5, 4), to_percent(self, val))

\* Scale::to_angle: 1.25 * PI * (to_percent - 0.5)
to_angle(self, val) ==
    RatMul(Rat(5, 4), RatSub(to_percent(self, val), Rat(1, 2)))

ScaleEnds == (-ScaleSpan..ScaleSpan) \cup {100}

Scales == {Scale(min, max) : min \in ScaleEnds, max \in ScaleEnds}

ScaleValues == (-(ScaleSpan + 2)..(ScaleSpan + 2)) \cup {50, 100, 150, 200}

(***************************************************************************)
(* Bounds (config.rs 178-219)                                              *)
(***************************************************************************)
Bounds(x, y, width, height) ==
    [x |-> x, y |-> y, width |-> width, height |-> height]

\* Bounds::radius
radius(self) == RatMul(Rat(Min(self.width, self.height), 1), Rat(1, 2))

\* a slip: the size shrinks by one inset, not by one on each side
inset_one_side(self, pixels) ==
    Bounds(self.x + pixels, self.y + pixels,
           self.width - pixels, self.height - pixels)

\* Bounds::inset
inset(self, pixels) ==
    Bounds(self.x + pixels, self.y + pixels,
           self.width - pixels * 2, self.height - pixels * 2)

Coords == -1..MaxCoord

Dims == (0..MaxDim) \cup {50, 100}

Pixels == (-1..MaxDim) \cup {5, 30}

AllBounds ==
    {Bounds(x, y, w, h) : x \in Coords, y \in Coords, w \in Dims, h \in Dims}

(***************************************************************************)
(* State, Test, When, Logic (config.rs 151-170)                            *)
(***************************************************************************)
Default == <<"Default">>

Alarm(name) == <<"Alarm", name>>

States == {Default, Alarm("hot"), Alarm("cold")}

\* a slip: two alarms are taken for the same key whatever their names
StateEq_tag_only(a, b) == a[1] = b[1]

\* #[derive(PartialEq, Eq, Hash)] on State: the variant and its payload
StateEq(a, b) == a = b

Always == <<"Always">>

Never == <<"Never">>

LessThan(x) == <<"LessThan", x>>

GreaterThan(x) == <<"GreaterThan", x>>

Equal(x) == <<"Equal", x>>

Between(lo, hi) == <<"Between", lo, hi>>

Tests ==
    {Always, Never, LessThan(0), GreaterThan(100), Equal(50), Between(0, 100)}

\* struct When(String, Test, State)
When(channel, test, state) == <<channel, test, state>>

Channels == {"temp", "rpm"}

Whens == {When(c, t, s) : c \in Channels, t \in Tests, s \in States}

\* type Logic = Vec<When>: the rule lists of n rules
LogicsOfLen(n) == [1..n -> Whens]

ChannelValues == {-10, 0, 50, 100, 150}

\* config.rs declares the rules; their evaluation is modelled from the
\* design document (section 4.3): strict inequalities, exact equality and
\* a closed interval
\* whether a value passes a Test
test_matches(test, value) ==
    CASE test[1] = "Always" -> TRUE
      [] test[1] = "Never" -> FALSE
      [] test[1] = "LessThan" -> value < test[2]
      [] test[1] = "GreaterThan" -> value > test[2]
      [] test[1] = "Equal" -> value = test[2]
      [] test[1] = "Between" -> test[2] <= value /\ value <= test[3]

\* a slip: the scan does not stop at the first match, the last one wins
RECURSIVE evaluate_last_wins(_, _, _)
evaluate_last_wins(logic, channel, value) ==
    IF logic = <<>> THEN Default
    ELSE LET w == logic[Len(logic)]
         IN  IF w[1] = channel /\ test_matches(w[2], value) THEN w[3]
             ELSE evaluate_last_wins(SubSeq(logic, 1, Len(logic) - 1),
                                     channel, value)

\* the state of a gauge bound to channel, whose current value is value
RECURSIVE evaluate(_, _, _)
evaluate(logic, channel, value) ==
    IF logic = <<>> THEN Default
    ELSE LET w == Head(logic)
         IN  IF w[1] = channel /\ test_matches(w[2], value) THEN w[3]
             ELSE evaluate(Tail(logic), channel, value)

(***************************************************************************)
(* Color, Pattern, Style, StyleSet (config.rs 221-250)                     *)
(***************************************************************************)
\* Style::default(): the style for debugging
StyleDefault ==
    [background |-> <<"SlowBlink", <<1, 0, 0, 1>>>>,
     foreground |-> <<"Solid", <<1, 0, 0, 1>>>>,
     indicator |-> <<"FastBlink", <<1, 0, 1, 1>>>>]

StylePlain ==
    [background |-> <<"Hidden">>,
     foreground |-> <<"Solid", <<0, 0, 1, 1>>>>,
     indicator |-> <<"Solid", <<0, 0, 1, 1>>>>]

Styles == {StyleDefault, StylePlain}

\* type StyleSet = HashMap<State, Style>: entries <<key, style>>, keys unique
StyleSets ==
    {entries \in SUBSET (States \X Styles) :
        \A e1 \in entries, e2 \in entries : e1[1] = e2[1] => e1 = e2}

\* HashMap::get: Some(style) of the entry whose key equals state, or None
Get(styles, state) ==
    LET hits == {e \in styles : StateEq(e[1], state)}
    IN  IF hits = {} THEN <<"None">>
        ELSE <<"Some", (CHOOSE e \in hits : TRUE)[2]>>

\* config.rs declares the style set; its resolution is modelled from the
\* design document (section 4.4): the state's own entry, else the Default
\* entry, else a configuration error
resolve_style(styles, state) ==
    LET own == Get(styles, state)
        fallback == Get(styles, Default)
    IN  IF own[1] = "Some" THEN <<"Ok", own[2]>>
        ELSE IF ~StateEq(state, Default) /\ fallback[1] = "Some"
        THEN <<"Ok", fallback[2]>>
        ELSE <<"ConfigError">>

(***************************************************************************)
(* Operations                                                              *)
(***************************************************************************)
Init ==
    /\ op = "idle"
    /\ args = <<>>
    /\ out = <<>>
    /\ recv = <<>>

\* the caller takes the returned value and is ready for the next call
Return ==
    /\ op # "idle"
    /\ op' = "idle"
    /\ args' = <<>>
    /\ out' = <<>>
    /\ recv' = <<>>

\* label.append(&text)
LabelAppend ==
    /\ op = "idle"
    /\ \E label \in Labels, text \in Texts :
        /\ op' = "append"
        /\ args' = [self |-> label, text |-> text]
        /\ out' = append(label, text)
        /\ recv' = label

\* Format::Integer(width).format_value(value)
FormatInteger ==
    /\ op = "idle"
    /\ \E value \in FloatValues, width \in 0..MaxWidth :
        /\ op' = "format_integer"
        /\ args' = [value |-> value, width |-> width]
        /\ out' = format_integer(value, width)
        /\ recv' = [tag |-> "Integer", width |-> width]

\* Format::Decimal(int, dec).format_value(value), value finite
FormatDecimal ==
    /\ op = "idle"
    /\ \E value \in DecimalValues, int \in 0..MaxWidth, dec \in 0..MaxDec :
        /\ op' = "format_decimal"
        /\ args' = [value |-> value, int |-> int, dec |-> dec]
        /\ out' = format_decimal(value, int, dec)
        /\ recv' = [tag |-> "Decimal", int |-> int, dec |-> dec]

\* Format::Time(scale).format_value(value)
FormatTime ==
    /\ op = "idle"
    /\ \E value \in FloatValues, scale \in TimeScales :
        /\ op' = "format_time"
        /\ args' = [value |-> value, scale |-> scale]
        /\ out' = format_time(value, scale)
        /\ recv' = [tag |-> "Time", scale |-> scale]

\* scale.to_percent(val)
ToPercent ==
    /\ op = "idle"
    /\ \E scale \in Scales, val \in ScaleValues :
        /\ op' = "to_percent"
        /\ args' = [self |-> scale, val |-> val]
        /\ out' = to_percent(scale, val)
        /\ recv' = scale

\* scale.to_angle(val)
ToAngle ==
    /\ op = "idle"
    /\ \E scale \in Scales, val \in ScaleValues :
        /\ op' = "to_angle"
        /\ args' = [self |-> scale, val |-> val]
        /\ out' = to_angle(scale, val)
        /\ recv' = scale

\* bounds.radius()
Radius ==
    /\ op = "idle"
    /\ \E bounds \in AllBounds :
        /\ op' = "radius"
        /\ args' = [self |-> bounds]
        /\ out' = radius(bounds)
        /\ recv' = bounds

\* bounds.inset(pixels)
Inset ==
    /\ op = "idle"
    /\ \E bounds \in AllBounds, pixels \in Pixels :
        /\ op' = "inset"
        /\ args' = [self |-> bounds, pixels |-> pixels]
        /\ out' = inset(bounds, pixels)
        /\ recv' = bounds

\* the logic evaluation of one gauge in one frame
Evaluate ==
    /\ op = "idle"
    /\ \E n \in 0..MaxRules, channel \in Channels, value \in ChannelValues :
        \E logic \in LogicsOfLen(n) :
            /\ op' = "evaluate"
            /\ args' = [logic |-> logic, channel |-> channel, value |-> value]
            /\ out' = evaluate(logic, channel, value)
            /\ recv' = [rules |-> logic]

\* the style resolution of one gauge in one frame
ResolveStyle ==
    /\ op = "idle"
    /\ \E styles \in StyleSets, state \in States :
        /\ op' = "resolve_style"
        /\ args' = [styles |-> styles, state |-> state]
        /\ out' = resolve_style(styles, state)
        /\ recv' = [entries |-> styles]

Next ==
    \/ Return
    \/ LabelAppend
    \/ FormatInteger
    \/ FormatDecimal
    \/ FormatTime
    \/ ToPercent
    \/ ToAngle
    \/ Radius
    \/ Inset
    \/ ResolveStyle
    \/ Evaluate

Spec == Init /\ [][Next]_vars

(***************************************************************************)
(* Reading a formatted text back                                           *)
(***************************************************************************)
\* the place of the first ch in s, 0 when there is none
RECURSIVE IndexFrom(_, _, _)
IndexFrom(s, ch, i) ==
    IF i > Len(s) THEN 0
    ELSE IF SubSeq(s, i, i) = ch THEN i
    ELSE IndexFrom(s, ch, i + 1)

IndexOf(s, ch) == IndexFrom(s, ch, 1)

\* the text before the decimal point (all of it when there is no point)
BeforeDot(s) ==
    IF IndexOf(s, ".") = 0 THEN s ELSE SubSeq(s, 1, IndexOf(s, ".") - 1)

\* the text after the decimal point (none when there is no point)
AfterDot(s) ==
    IF IndexOf(s, ".") = 0 THEN "" ELSE SubSeq(s, IndexOf(s, ".") + 1, Len(s))

\* floor of a finite value
Floor(v) == IF v.c < 0 THEN v.w - 1 ELSE v.w

\* the rule list of the spec's example
HotColdRules ==
    <<When("temp", GreaterThan(100), Alarm("hot")),
      When("temp", LessThan(0), Alarm("cold"))>>

(***************************************************************************)
(* C1: the logic evaluation of a gauge bound to channel C returns the      *)
(* state of the first rule, in list order, whose channel is C and whose    *)
(* test C's value satisfies, and Default when there is no such rule.  With *)
(* [When(temp, GreaterThan(100), hot), When(temp, LessThan(0), cold)]:     *)
(* 150 gives hot, -10 gives cold, 50 gives Default.                        *)
(***************************************************************************)
C1_FirstMatchWins ==
    op = "evaluate" =>
        LET logic == args.logic
            matching == {i \in 1..Len(logic) :
                            /\ logic[i][1] = args.channel
                            /\ test_matches(logic[i][2], args.value)}
        IN  /\ matching = {} => out = Default
            /\ matching # {} =>
                \E i \in matching :
                    /\ \A j \in matching : i <= j
                    /\ out = logic[i][3]
            /\ (logic = HotColdRules /\ args.channel = "temp") =>
                /\ args.value = 150 => out = Alarm("hot")
                /\ args.value = -10 => out = Alarm("cold")
                /\ args.value = 50 => out = Default

\* two rules of the gauge's channel both match and the first one's state
\* has been returned
C1_Witness ==
    /\ op = "evaluate"
    /\ args.channel = "temp"
    /\ args.value = 150
    /\ args.logic = <<When("temp", GreaterThan(100), Alarm("hot")),
                      When("temp", Always, Alarm("cold"))>>
    /\ out = Alarm("hot")

C3_AppendKeepsVariant ==
    op = "append" =>
        LET l == args.self
            x == args.text
        IN  /\ recv = l
            /\ l.tag = "None" => out = LabelPlain(x)
            /\ l.tag # "None" =>
                /\ out.tag = l.tag
                /\ out.text = l.text \o x
                /\ DOMAIN out = DOMAIN l
                /\ \A f \in DOMAIN l \ {"tag", "text"} : out[f] = l[f]

\* Sized("a", 10).append("b") has returned Sized("ab", 10)
C3_Witness ==
    /\ op = "append"
    /\ args.self = LabelSized("a", 10)
    /\ args.text = "b"
    /\ out = LabelSized("ab", 10)

(***************************************************************************)
(* C4: Time(scale).format_value(value) writes seconds = value * scale as   *)
(* H:MM:SS.ss with hours = floor(seconds)/3600 in a field of two, minutes  *)
(* = (floor(seconds)/60) mod 60 and seconds = floor(seconds) mod 60, each  *)
(* two digits; Time(1.0).format_value(3661.0) is " 1:01:01.00".  Stated    *)
(* for the seconds that fit an i32.                                        *)
(***************************************************************************)
C4_TimeFields ==
    (op = "format_time" /\ FloatMul(args.value, args.scale).k = "fin") =>
        LET whole == Floor(FloatMul(args.value, args.scale))
        IN  /\ BeforeDot(out) =
                    PadLeft(I32Str(whole \div 3600), 2) \o ":"
                        \o ZeroPad((whole \div 60) % 60, 2) \o ":"
                        \o ZeroPad(whole % 60, 2)
            /\ (args.value = Fin(3661, 0) /\ args.scale = 1) =>
                    out = " 1:01:01.00"

(***************************************************************************)
(* C5: Decimal(intDigits, decDigits).format_value(value) has an integer    *)
(* part of at least intDigits characters (space-padded) and exactly        *)
(* decDigits fractional digits; Decimal(3,2).format_value(7.5) is          *)
(* "  7.50".                                                               *)
(***************************************************************************)
C5_DecimalIntegerField ==
    op = "format_decimal" =>
        /\ Len(BeforeDot(out)) >= args.int
        /\ Len(AfterDot(out)) = args.dec
        /\ (args.value = Fin(7, 50) /\ args.int = 3 /\ args.dec = 2) =>
                out = "  7.50"

(***************************************************************************)
(* C6, as the claim has it: Integer(width).format_value(value) is exactly  *)
(* width characters long, for every value and every width.                 *)
(***************************************************************************)
C6_ExactlyWidth ==
    op = "format_integer" => Len(out) = args.width

(***************************************************************************)
(* C6, amended: Integer(width).format_value(value) is the decimal text of  *)
(* the value truncated to an i32, right-justified and space-padded to      *)
(* width characters when that text is shorter than width, and that text    *)
(* in full, longer than width, otherwise.                                  *)
(***************************************************************************)
C6_AtLeastWidth ==
    op = "format_integer" =>
        LET text == I32Str(AsI32(args.value))
            pad == Len(out) - Len(text)
        IN  /\ Len(out) = Max(args.width, Len(text))
            /\ SubSeq(out, 1, pad) = Repeat(" ", pad)
            /\ SubSeq(out, pad + 1, Len(out)) = text

\* 12345.75 in a field of 2 has come out as the five digits
C6_Witness ==
    /\ op = "format_integer"
    /\ args.value = Fin(12345, 75)
    /\ args.width = 2
    /\ out = "12345"

(***************************************************************************)
(* C7: for Scale(0, 100, _, _), to_angle(0) = -0.625 PI and to_angle(100)  *)
(* = +0.625 PI; to_percent is 0 at the minimum and 1 at the maximum.       *)
(***************************************************************************)
C7_EndpointAngles ==
    /\ (op = "to_angle" /\ args.self = Scale(0, 100)) =>
        /\ args.val = 0 => RatEq(out, Rat(-5, 8))
        /\ args.val = 100 => RatEq(out, Rat(5, 8))
    /\ (op = "to_percent" /\ args.self = Scale(0, 100)) =>
        /\ args.val = 0 => RatEq(out, Rat(0, 1))
        /\ args.val = 100 => RatEq(out, Rat(1, 1))

\* Scale(0, 100).to_angle(100) has returned 0.625 PI
C7_Witness ==
    /\ op = "to_angle"
    /\ args.self = Scale(0, 100)
    /\ args.val = 100
    /\ RatEq(out, Rat(5, 8))

(***************************************************************************)
(* C8: b.inset(p) has x and y increased by p and width and height          *)
(* decreased by 2p, negative sizes included; b.radius() is                 *)
(* min(width, height)/2; Bounds{0,0,100,50}.inset(5) is                    *)
(* Bounds{5,5,90,40} and the radius of Bounds{0,0,100,50} is 25.           *)
(***************************************************************************)
C8_InsetAndRadius ==
    /\ op = "inset" =>
        LET b == args.self
            p == args.pixels
        IN  /\ out.x - b.x = p
            /\ out.y - b.y = p
            /\ b.width - out.width = 2 * p
            /\ b.height - out.height = 2 * p
            /\ recv = b
            /\ (b = Bounds(0, 0, 100, 50) /\ p = 5) => out = Bounds(5, 5, 90, 40)
    /\ op = "radius" =>
        LET b == args.self
        IN  /\ RatLeq(RatMul(out, Rat(2, 1)), Rat(b.width, 1))
            /\ RatLeq(RatMul(out, Rat(2, 1)), Rat(b.height, 1))
            /\ \/ RatEq(RatMul(out, Rat(2, 1)), Rat(b.width, 1))
               \/ RatEq(RatMul(out, Rat(2, 1)), Rat(b.height, 1))
            /\ b = Bounds(0, 0, 100, 50) => RatEq(out, Rat(25, 1))

\* an inset of more than half the height has left a negative height
C8_Witness ==
    /\ op = "inset"
    /\ args.self = Bounds(0, 0, 100, 50)
    /\ args.pixels = 30
    /\ out = Bounds(30, 30, 40, -10)

(***************************************************************************)
(* C9: for every Scale with max > min and every value, to_angle(value) is  *)
(* within the sweep from -0.625 PI to +0.625 PI.                           *)
(***************************************************************************)
C9_AngleWithinSweep ==
    (op = "to_angle" /\ args.self.max > args.self.min) =>
        /\ RatLeq(Rat(-5, 8), out)
        /\ RatLeq(out, Rat(5, 8))

(***************************************************************************)
(* C10: in Format::Time, when seconds = value * scale is not negative and  *)
(* its whole part fits an i32, the hundredths field after the dot is       *)
(* floor(seconds * 100) mod 100, two digits.                               *)
(***************************************************************************)
C10_Hundredths ==
    (/\ op = "format_time"
     /\ FloatMul(args.value, args.scale).k = "fin"
     /\ ~IsNegative(FloatMul(args.value, args.scale))) =>
        AfterDot(out) = ZeroPad(FloatMul(args.value, args.scale).c, 2)
====
